---- MODULE Spec2Model ----
(***************************************************************************)
(* Model of the host-side session server of src/src/server.rs: the service *)
(* registry (Server), the identifier allocator and the connection          *)
(* handshake of create_tcp_connection.                                     *)
(***************************************************************************)
EXTENDS Integers, Sequences, FiniteSets, TLC

VARIABLES
    id_count,       \* Server.id_count
    returned,       \* the values get_new_id has returned, in call order
    connections,    \* the keys of Server.connections
    services,       \* Server.services: service name -> its subscriber set
    calls,          \* the Service callbacks made by the last registry operation
    lastOp,         \* the last registry operation and its arguments
    pc,             \* where each create_tcp_connection call stands
    local,          \* its live locals: id, secure, the peer's response
    stream,         \* its stream: who owns it, and whether set_key was called
    err,            \* the error it returned, "" if none
    key_confirmed,  \* Config's key-confirmed flag
    lock,           \* who holds the write lock of the ServerPtr, 0 if free
    teardown,       \* how far the destruction of the Server has got
    subcall,        \* the concurrent Server::subscribe calls, step by step
    audio,          \* the audio input device, RESTARTING and the audio worker
    gate,           \* AUDIO_ZERO_COUNT and what send_f32 did with the last frame
    ipc,            \* the thread of start_server that starts the ipc server
    worker,         \* the worker of the audio service and the shutdown of the host
    setcall         \* the concurrent set_voice_call_input_device calls, step by step

serverVars == <<id_count, returned, connections, services, calls, lastOp>>

hsVars == <<pc, local, stream, err, key_confirmed>>

\* the state outside the registry operations and the handshake
auxVars == <<gate, ipc, worker, setcall>>

restVars == <<teardown, subcall, audio, gate, ipc, worker, setcall>>

vars == <<id_count, returned, connections, services, calls, lastOp,
          pc, local, stream, err, key_confirmed,
          lock, teardown, subcall, audio, gate, ipc, worker, setcall>>

(***************************************************************************)
(* Bounds of the model.                                                    *)
(***************************************************************************)
\* how many identifiers get_new_id hands out in a run of the registry
MaxConn == 1

\* how many create_tcp_connection calls run concurrently
MaxAttempts == 2

\* how many threads call Server::subscribe concurrently
MaxCallers == 2

Callers == 1..MaxCallers

Attempts == 1..MaxAttempts

\* the display indices a capture_displays request or a video service may name
DisplayIdx == {0, 1}

\* the display lists a capture_displays request may carry
DisplayLists == {<<>>, <<0>>, <<1>>, <<0, 1>>}

\* samples of hbb_common::rand::random::<i32>()
RandSamples == {-1999}

(***************************************************************************)
(* Names of the services.                                                  *)
(***************************************************************************)
AUDIO_NAME == "audio"

Monitor == "Monitor"
Camera == "Camera"
VideoSources == {Monitor, Camera}

PRIMARY_DISPLAY_IDX == 0
PRIMARY_CAMERA_IDX == 0

\* VideoSource::service_name_prefix
service_name_prefix(source) == IF source = Monitor THEN "monitor" ELSE "camera"

\* format!("{}{}", source.service_name_prefix(), idx), for every source and
\* every index of the model
ServiceNameTable ==
    [source \in VideoSources, idx \in DisplayIdx |->
        service_name_prefix(source) \o ToString(idx)]

\* video_service::get_service_name: the prefix followed by the decimal index
get_service_name(source, idx) == ServiceNameTable[source, idx]

\* str::starts_with
starts_with(name, prefix) ==
    /\ Len(name) >= Len(prefix)
    /\ SubSeq(name, 1, Len(prefix)) = prefix

\* the video services the model may register
VideoNames ==
    {get_service_name(Monitor, d) : d \in DisplayIdx}
        \cup {get_service_name(Camera, PRIMARY_CAMERA_IDX)}

\* every name a request may carry; "printer" is never registered
ServiceNames == {AUDIO_NAME, "printer"} \cup VideoNames

\* the test of is_video_service_name, on every name of the model
VideoNameTable ==
    [name \in ServiceNames |->
        \/ starts_with(name, service_name_prefix(Monitor))
        \/ starts_with(name, service_name_prefix(Camera))]

\* Server::is_video_service_name
is_video_service_name(name) == VideoNameTable[name]

\* the denylists add_connection may be given
Denylists == SUBSET {AUDIO_NAME, get_service_name(Monitor, PRIMARY_DISPLAY_IDX)}

(***************************************************************************)
(* The Service interface, on the map name -> subscriber set.               *)
(***************************************************************************)
\* Service::is_subed
is_subed(S, name, id) == id \in S[name]

\* Service::on_subscribe
on_subscribe(S, name, id) == [S EXCEPT ![name] = @ \cup {id}]

\* Service::on_unsubscribe
on_unsubscribe(S, name, id) == [S EXCEPT ![name] = @ \ {id}]

NoOp ==
    [op |-> "new", conn |-> 0, name |-> "", sub |-> FALSE, source |-> "",
     include |-> FALSE, exclude |-> FALSE, noperms |-> {}, camera |-> FALSE]

\* the connection objects that exist: one per identifier handed out
Conns == {returned[i] : i \in 1..Len(returned)}

(***************************************************************************)
(* new(): the registry after construction.                                 *)
(***************************************************************************)
\* Rust's % on i32: the remainder has the sign of the dividend
rust_rem(a, b) ==
    IF a >= 0 \/ a % b = 0 THEN a % b ELSE (a % b) - b

new_id_count_unshifted(r) == rust_rem(r, 1000)

\* the seed of id_count
new_id_count(r) == rust_rem(r, 1000) + 1000

InitServer ==
    /\ \E r \in RandSamples : id_count = new_id_count(r)
    /\ returned = <<>>
    /\ connections = {}
    /\ services = [n \in {AUDIO_NAME} |-> {}]
    /\ calls = {}
    /\ lastOp = NoOp

NoLocal == [id |-> 0, secure |-> FALSE, resp |-> ""]

NoStream == [owner |-> "caller", key |-> FALSE]

InitAttempts ==
    /\ pc = [p \in Attempts |-> "idle"]
    /\ local = [p \in Attempts |-> NoLocal]
    /\ stream = [p \in Attempts |-> NoStream]
    /\ err = [p \in Attempts |-> ""]

\* no destruction begun, no separate subscribe call, the audio state at rest
NoTeardown == [state |-> "alive", joined |-> {}, registered |-> {}]

NoSubcall == <<>>

NoAudio == <<>>

\* no frame handed to send_f32, the ipc thread not spawned, no audio worker
InitAux ==
    /\ gate = <<>>
    /\ ipc = <<>>
    /\ worker = <<>>
    /\ setcall = <<>>

InitRest ==
    /\ lock = 0
    /\ teardown = NoTeardown
    /\ subcall = NoSubcall
    /\ audio = NoAudio
    /\ InitAux

Init ==
    /\ InitServer
    /\ InitAttempts
    /\ InitRest
    /\ key_confirmed = TRUE

(***************************************************************************)
(* ServerPtr = Arc<RwLock<Server>>: the &mut self methods of Server run    *)
(* under the write lock, which one holder has at a time.                   *)
(***************************************************************************)
write_lock_shared(l) == TRUE

\* server.write() is granted when nobody holds the lock
write_lock_free(l) == l = 0

(***************************************************************************)
(* Server::get_new_id                                                      *)
(***************************************************************************)
next_id_stuck(count) == count

next_id_twice(count) == count + 2

next_id(count) == count + 1

get_new_id ==
    /\ Len(returned) < MaxConn
    /\ write_lock_free(lock)
    /\ id_count' = next_id(id_count)
    /\ returned' = Append(returned, id_count')
    /\ calls' = {}
    /\ lastOp' = [NoOp EXCEPT !.op = "get_new_id", !.conn = id_count']
    /\ UNCHANGED <<connections, services, lock>>
    /\ UNCHANGED hsVars
    /\ UNCHANGED restVars

(***************************************************************************)
(* The registry operations, as functions of the service map: each returns  *)
(* the new map and the Service callbacks it made.                          *)
(***************************************************************************)
Result(S, C) == [svc |-> S, calls |-> C]

\* Server::contains
contains(S, name) == name \in DOMAIN S

add_service_subscribes_admitted(S, name) ==
    [n \in DOMAIN S \cup {name} |->
        IF n = name THEN UNION {S[k] : k \in DOMAIN S} ELSE S[n]]

\* Server::add_service: HashMap::insert of a fresh service under its name
add_service(S, name) ==
    [n \in DOMAIN S \cup {name} |-> IF n = name THEN {} ELSE S[n]]

subscribe_registers(S, name, id, sub) ==
    IF sub
    THEN Result(on_subscribe(IF contains(S, name) THEN S ELSE add_service(S, name),
                             name, id),
                {<<"on_subscribe", name, id>>})
    ELSE Result(S, {})

subscribe_audio_barred(S, name, id, sub) ==
    IF contains(S, name) /\ ~(sub /\ name = AUDIO_NAME)
    THEN IF is_subed(S, name, id) = sub
         THEN Result(S, {})
         ELSE IF sub
              THEN Result(on_subscribe(S, name, id), {<<"on_subscribe", name, id>>})
              ELSE Result(on_unsubscribe(S, name, id), {<<"on_unsubscribe", name, id>>})
    ELSE Result(S, {})

subscribe_unchecked(S, name, id, sub) ==
    IF contains(S, name)
    THEN IF sub
         THEN Result(on_subscribe(S, name, id), {<<"on_subscribe", name, id>>})
         ELSE Result(on_unsubscribe(S, name, id), {<<"on_unsubscribe", name, id>>})
    ELSE Result(S, {})

\* Server::subscribe
subscribe(S, name, id, sub) ==
    IF contains(S, name)
    THEN IF is_subed(S, name, id) = sub
         THEN Result(S, {})
         ELSE IF sub
              THEN Result(on_subscribe(S, name, id), {<<"on_subscribe", name, id>>})
              ELSE Result(on_unsubscribe(S, name, id), {<<"on_unsubscribe", name, id>>})
    ELSE Result(S, {})

admitted_names_primary_camera_too(S, noperms) ==
    {n \in DOMAIN S :
        /\ ~(is_video_service_name(n)
                /\ n # get_service_name(Monitor, PRIMARY_DISPLAY_IDX)
                /\ n # get_service_name(Camera, PRIMARY_CAMERA_IDX))
        /\ n \notin noperms}

admitted_names_every_monitor(S, noperms) ==
    {n \in DOMAIN S :
        /\ ~(is_video_service_name(n)
                /\ ~starts_with(n, service_name_prefix(Monitor)))
        /\ n \notin noperms}

admitted_names_noperms_ignored(S, noperms) ==
    {n \in DOMAIN S :
        ~(is_video_service_name(n)
            /\ n # get_service_name(Monitor, PRIMARY_DISPLAY_IDX))}

\* the services add_connection subscribes the connection to
admitted_names(S, noperms) ==
    {n \in DOMAIN S :
        /\ ~(is_video_service_name(n)
                /\ n # get_service_name(Monitor, PRIMARY_DISPLAY_IDX))
        /\ n \notin noperms}

\* Server::add_connection, its loop over services.values()
add_connection(S, id, noperms) ==
    LET admitted == admitted_names(S, noperms)
    IN  Result([n \in DOMAIN S |->
                    IF n \in admitted THEN S[n] \cup {id} ELSE S[n]],
               {<<"on_subscribe", n, id>> : n \in admitted})

add_camera_connection_as_general(S, id, camera_exists) ==
    add_connection(S, id, {})

\* Server::add_camera_connection, up to the insertion into connections
add_camera_connection(S, id, camera_exists) ==
    IF camera_exists /\ contains(S, get_service_name(Camera, PRIMARY_CAMERA_IDX))
    THEN Result(on_subscribe(S, get_service_name(Camera, PRIMARY_CAMERA_IDX), id),
                {<<"on_subscribe", get_service_name(Camera, PRIMARY_CAMERA_IDX), id>>})
    ELSE Result(S, {})

remove_connection_video_kept(S, id) ==
    Result([n \in DOMAIN S |-> IF is_video_service_name(n) THEN S[n] ELSE S[n] \ {id}],
           {<<"on_unsubscribe", n, id>> : n \in {m \in DOMAIN S : ~is_video_service_name(m)}})

\* Server::remove_connection, its loop over services.values()
remove_connection(S, id) ==
    Result([n \in DOMAIN S |-> S[n] \ {id}],
           {<<"on_unsubscribe", n, id>> : n \in DOMAIN S})

\* the names capture_displays builds from its index list
display_names(source, displays) ==
    {get_service_name(source, displays[i]) : i \in 1..Len(displays)}

\* self.subscribe(..) inside a loop: its effect after what the loop has done
then_subscribe(R, name, id, sub) ==
    LET r == subscribe(R.svc, name, id, sub)
    IN  Result(r.svc, R.calls \cup r.calls)

capture_one_exclude_listed(R, name, id, names, include, exclude) ==
    IF is_video_service_name(name) /\ name \in names
    THEN IF include
         THEN then_subscribe(R, name, id, TRUE)
         ELSE IF exclude
              THEN then_subscribe(R, name, id, FALSE)
              ELSE R
    ELSE R

capture_one_exclude_ignored(R, name, id, names, include, exclude) ==
    IF is_video_service_name(name) /\ name \in names /\ include
    THEN then_subscribe(R, name, id, TRUE)
    ELSE R

\* one iteration of the loop of capture_displays, on the key name
capture_one(R, name, id, names, include, exclude) ==
    IF is_video_service_name(name)
    THEN IF name \in names
         THEN IF include
              THEN then_subscribe(R, name, id, TRUE)
              ELSE R
         ELSE IF exclude
              THEN then_subscribe(R, name, id, FALSE)
              ELSE R
    ELSE R

RECURSIVE capture_loop(_, _, _, _, _, _)
\* the loop of capture_displays over the keys still to visit
capture_loop(R, keys, id, names, include, exclude) ==
    IF keys = {}
    THEN R
    ELSE LET name == CHOOSE n \in keys : TRUE
         IN  capture_loop(capture_one(R, name, id, names, include, exclude),
                          keys \ {name}, id, names, include, exclude)

\* Server::capture_displays
capture_displays(S, id, source, displays, include, exclude) ==
    LET names == display_names(source, displays)
    IN  capture_loop(Result(S, {}), DOMAIN S, id, names, include, exclude)

RECURSIVE values(_)
\* connections.values_mut().collect(): the map's entries, each once, in the
\* order the HashMap iterates them
values(conns) ==
    IF conns = {}
    THEN <<>>
    ELSE LET c == CHOOSE id \in conns : TRUE
         IN  <<c>> \o values(conns \ {c})

\* c.send(msg): one more stop-service message handed to the connection c
send_stop_service(sent, c) ==
    [id \in DOMAIN sent \cup {c} |->
        IF id = c
        THEN (IF c \in DOMAIN sent THEN sent[c] ELSE 0) + 1
        ELSE sent[id]]

RECURSIVE close_loop(_, _)
\* the loop of close_connections over conn_inners: how many stop-service
\* messages each connection has been handed
close_loop(conn_inners, sent) ==
    IF conn_inners = <<>>
    THEN sent
    ELSE close_loop(Tail(conn_inners), send_stop_service(sent, Head(conn_inners)))

close_connections_first_only(conns) ==
    IF conns = {}
    THEN {}
    ELSE {<<"send_stop_service", "1", CHOOSE id \in conns : TRUE>>}

\* Server::close_connections: the stop-service messages sent, each with the
\* connection it went to and how many of them went there
close_connections(conns) ==
    {<<"send_stop_service", ToString(close_loop(values(conns), <<>>)[id]), id>> :
        id \in DOMAIN close_loop(values(conns), <<>>)}

(***************************************************************************)
(* The registry operations as actions, one per method of Server.           *)
(***************************************************************************)
Apply(R, conns, op) ==
    /\ write_lock_free(lock)
    /\ lastOp' = op
    /\ connections' = conns
    /\ LET r == R
       IN  services' = r.svc /\ calls' = r.calls
    /\ UNCHANGED <<id_count, returned, lock>>
    /\ UNCHANGED hsVars
    /\ UNCHANGED restVars

try_add_primary_camera_service(camera_exists) ==
    Apply(Result(IF /\ camera_exists
                    /\ ~contains(services, get_service_name(Camera, PRIMARY_CAMERA_IDX))
                 THEN add_service(services,
                                  get_service_name(Camera, PRIMARY_CAMERA_IDX))
                 ELSE services, {}),
          connections,
          [NoOp EXCEPT !.op = "try_add_primary_camera_service",
                       !.camera = camera_exists])

try_add_primay_video_service_unchecked ==
    Apply(Result(add_service(services,
                             get_service_name(Monitor, PRIMARY_DISPLAY_IDX)), {}),
          connections,
          [NoOp EXCEPT !.op = "try_add_primay_video_service"])

try_add_primay_video_service ==
    Apply(Result(IF ~contains(services,
                              get_service_name(Monitor, PRIMARY_DISPLAY_IDX))
                 THEN add_service(services,
                                  get_service_name(Monitor, PRIMARY_DISPLAY_IDX))
                 ELSE services, {}),
          connections,
          [NoOp EXCEPT !.op = "try_add_primay_video_service"])

\* a connection registers the video service of a display on first need
add_video_service(d) ==
    /\ ~contains(services, get_service_name(Monitor, d))
    /\ Apply(Result(add_service(services, get_service_name(Monitor, d)), {}),
             connections,
             [NoOp EXCEPT !.op = "add_service",
                          !.name = get_service_name(Monitor, d)])

AddConnection(id, noperms) ==
    Apply(add_connection(services, id, noperms), connections \cup {id},
          [NoOp EXCEPT !.op = "add_connection", !.conn = id, !.noperms = noperms])

AddCameraConnection(id, camera_exists) ==
    Apply(add_camera_connection(services, id, camera_exists),
          connections \cup {id},
          [NoOp EXCEPT !.op = "add_camera_connection", !.conn = id,
                       !.camera = camera_exists])

RemoveConnection(id) ==
    Apply(remove_connection(services, id), connections \ {id},
          [NoOp EXCEPT !.op = "remove_connection", !.conn = id])

CloseConnections ==
    Apply(Result(services, close_connections(connections)), connections,
          [NoOp EXCEPT !.op = "close_connections"])

Subscribe(name, id, sub) ==
    Apply(subscribe(services, name, id, sub), connections,
          [NoOp EXCEPT !.op = "subscribe", !.conn = id, !.name = name,
                       !.sub = sub])

CaptureDisplays(id, source, displays, include, exclude) ==
    Apply(capture_displays(services, id, source, displays, include, exclude),
          connections,
          [NoOp EXCEPT !.op = "capture_displays", !.conn = id,
                       !.source = source, !.include = include,
                       !.exclude = exclude])

Next ==
    \/ get_new_id
    \/ \E camera_exists \in BOOLEAN : try_add_primary_camera_service(camera_exists)
    \/ try_add_primay_video_service
    \/ \E d \in DisplayIdx : add_video_service(d)
    \/ \E id \in Conns, noperms \in Denylists : AddConnection(id, noperms)
    \/ \E id \in Conns, camera_exists \in BOOLEAN :
          AddCameraConnection(id, camera_exists)
    \/ \E id \in Conns : RemoveConnection(id)
    \/ CloseConnections
    \/ \E name \in ServiceNames, id \in Conns, sub \in BOOLEAN :
          Subscribe(name, id, sub)
    \/ \E id \in Conns, source \in VideoSources, displays \in DisplayLists,
          include \in BOOLEAN, exclude \in BOOLEAN :
          CaptureDisplays(id, source, displays, include, exclude)

Spec == Init /\ [][Next]_vars

(***************************************************************************)
(* create_tcp_connection: the handshake of one connection attempt.  The    *)
(* registry lock is taken for get_new_id alone; the attempt suspends at    *)
(* the send of the signed identity and at the wait for the peer's answer.  *)
(***************************************************************************)
SIGN_PUBLICKEYBYTES == 32
SIGN_SECRETKEYBYTES == 64
BOX_PUBLICKEYBYTES == 32

\* the (secret, public) key lengths Config::get_key_pair may give
KeyPairLens == {<<64, 32>>, <<0, 0>>, <<64, 31>>, <<63, 32>>}

\* what the wait for the peer's answer may yield: the timeout elapsing, the
\* end of the stream, a transport error, or the bytes of a message
RecvOutcomes ==
    {"elapsed", "none", "io_error", "unparseable", "other_message",
     "public_key_0", "public_key_31", "public_key_32", "public_key_32_undecodable",
     "public_key_33"}

\* what the send of the signed identity may yield
SendOutcomes == {"ok", "elapsed", "io_error"}

\* Message::parse_from_bytes(..).is_ok()
parses(resp) == resp \notin {"elapsed", "none", "io_error", "unparseable"}

\* msg_in.union is Some(message::Union::PublicKey(pk))
is_public_key(resp) ==
    resp \in {"public_key_0", "public_key_31", "public_key_32",
              "public_key_32_undecodable", "public_key_33"}

\* pk.asymmetric_value.len()
asymmetric_len(resp) ==
    CASE resp = "public_key_0" -> 0
      [] resp = "public_key_31" -> 31
      [] resp = "public_key_32" -> 32
      [] resp = "public_key_32_undecodable" -> 32
      [] resp = "public_key_33" -> 33

\* tcp::Encrypt::decode(..).is_ok()
decodes(resp) == resp = "public_key_32"

needs_handshake_secure_only(secure, sk_len, pk_len) == secure

\* the condition of the handshake, line 180
needs_handshake(secure, sk_len, pk_len) ==
    secure /\ pk_len = SIGN_PUBLICKEYBYTES /\ sk_len = SIGN_SECRETKEYBYTES

Outcome(e, key, unpin) == [err |-> e, set_key |-> key, unpin |-> unpin]

BAD_LENGTH == "Handshake failed: invalid public sign key length from peer"
BAD_FORMAT == "Handshake failed: invalid message format"
NO_RESPONSE == "Failed to receive public key"

handle_public_key_no_bail(resp) ==
    IF asymmetric_len(resp) = BOX_PUBLICKEYBYTES
    THEN IF decodes(resp)
         THEN Outcome("", TRUE, FALSE)
         ELSE Outcome("decode", FALSE, FALSE)
    ELSE Outcome("", FALSE, TRUE)

handle_public_key_empty_rejected(resp) ==
    IF asymmetric_len(resp) = BOX_PUBLICKEYBYTES
    THEN IF decodes(resp)
         THEN Outcome("", TRUE, FALSE)
         ELSE Outcome("decode", FALSE, FALSE)
    ELSE Outcome(BAD_LENGTH, FALSE, FALSE)

handle_public_key_unpins_bad_length(resp) ==
    IF asymmetric_len(resp) = BOX_PUBLICKEYBYTES
    THEN IF decodes(resp)
         THEN Outcome("", TRUE, FALSE)
         ELSE Outcome("decode", FALSE, FALSE)
    ELSE IF asymmetric_len(resp) = 0
         THEN Outcome("", FALSE, TRUE)
         ELSE Outcome(BAD_LENGTH, FALSE, TRUE)

\* lines 206-217: the peer's public-key record
handle_public_key(resp) ==
    IF asymmetric_len(resp) = BOX_PUBLICKEYBYTES
    THEN IF decodes(resp)
         THEN Outcome("", TRUE, FALSE)
         ELSE Outcome("decode", FALSE, FALSE)
    ELSE IF asymmetric_len(resp) = 0
         THEN Outcome("", FALSE, TRUE)
         ELSE Outcome(BAD_LENGTH, FALSE, FALSE)

\* the match on the peer's answer, lines 201-228: the error returned ("" if
\* none), whether stream.set_key is called, whether the key-confirmed flag is
\* cleared
handle_response(resp) ==
    IF resp = "elapsed" THEN Outcome("timeout", FALSE, FALSE)
    ELSE IF resp = "none" THEN Outcome(NO_RESPONSE, FALSE, FALSE)
    ELSE IF resp = "io_error" THEN Outcome("io", FALSE, FALSE)
    ELSE IF parses(resp)
    THEN IF is_public_key(resp)
         THEN handle_public_key(resp)
         ELSE Outcome("", FALSE, FALSE)
    ELSE Outcome(BAD_FORMAT, FALSE, FALSE)

handle_send_untimed(outcome) ==
    IF outcome = "io_error" THEN "io" ELSE ""

\* the result of timeout(CONNECT_TIMEOUT, stream.send(&msg_out)).await??
handle_send(outcome) ==
    IF outcome = "elapsed" THEN "timeout"
    ELSE IF outcome = "io_error" THEN "io"
    ELSE ""

guard_kept(holder) == holder

\* line 178: the write guard of server.write() is a temporary of the statement
\* and is dropped at its end: the lock is free again
guard_dropped(holder) == 0

\* lines 177-200: the identifier is taken, then either the signed identity is
\* handed to the stream or, with no handshake, Connection::start is reached.
\* The attempts are interchangeable: they are numbered in the order they begin.
Begin(p, secure, lens) ==
    /\ pc[p] = "idle"
    /\ \A q \in Attempts : q < p => pc[q] # "idle"
    /\ write_lock_free(lock)
    /\ lock' = guard_dropped(p)
    /\ id_count' = next_id(id_count)
    /\ returned' = Append(returned, id_count')
    /\ calls' = {}
    /\ lastOp' = [NoOp EXCEPT !.op = "get_new_id", !.conn = id_count']
    /\ local' = [local EXCEPT ![p] = [NoLocal EXCEPT !.id = id_count',
                                                     !.secure = secure]]
    /\ IF needs_handshake(secure, lens[1], lens[2])
       THEN /\ pc' = [pc EXCEPT ![p] = "send"]
            /\ stream' = [stream EXCEPT ![p].owner = "attempt"]
       ELSE /\ pc' = [pc EXCEPT ![p] = "started"]
            /\ stream' = [stream EXCEPT ![p].owner = "connection"]
    /\ UNCHANGED <<connections, services, err, key_confirmed>>
    /\ UNCHANGED restVars

\* line 200: the send completes, fails or times out
Send(p, outcome) ==
    /\ pc[p] = "send"
    /\ IF handle_send(outcome) = ""
       THEN /\ pc' = [pc EXCEPT ![p] = "recv"]
            /\ UNCHANGED <<stream, err>>
       ELSE /\ pc' = [pc EXCEPT ![p] = "failed"]
            /\ err' = [err EXCEPT ![p] = handle_send(outcome)]
            /\ stream' = [stream EXCEPT ![p].owner = "dropped"]
    /\ UNCHANGED <<local, key_confirmed, lock>>
    /\ UNCHANGED serverVars
    /\ UNCHANGED restVars

\* lines 201-245: the answer arrives (or not) and is acted upon
Recv(p, resp) ==
    /\ pc[p] = "recv"
    /\ local' = [local EXCEPT ![p].resp = resp]
    /\ key_confirmed' = IF handle_response(resp).unpin THEN FALSE ELSE key_confirmed
    /\ IF handle_response(resp).err = ""
       THEN /\ pc' = [pc EXCEPT ![p] = "started"]
            /\ stream' = [stream EXCEPT ![p] =
                              [owner |-> "connection",
                               key |-> handle_response(resp).set_key]]
            /\ UNCHANGED err
       ELSE /\ pc' = [pc EXCEPT ![p] = "failed"]
            /\ err' = [err EXCEPT ![p] = handle_response(resp).err]
            /\ stream' = [stream EXCEPT ![p].owner = "dropped"]
    /\ UNCHANGED serverVars
    /\ UNCHANGED lock
    /\ UNCHANGED restVars

\* the started connection is admitted: Server::add_connection
Admit(p, noperms) ==
    /\ pc[p] = "started"
    /\ write_lock_free(lock)
    /\ local[p].id \notin connections
    /\ services' = add_connection(services, local[p].id, noperms).svc
    /\ calls' = add_connection(services, local[p].id, noperms).calls
    /\ connections' = connections \cup {local[p].id}
    /\ lastOp' = [NoOp EXCEPT !.op = "add_connection", !.conn = local[p].id,
                              !.noperms = noperms]
    /\ UNCHANGED <<id_count, returned, lock>>
    /\ UNCHANGED hsVars
    /\ UNCHANGED restVars

InitHS ==
    /\ InitServer
    /\ InitAttempts
    /\ InitRest
    /\ key_confirmed \in BOOLEAN

NextHS ==
    \/ \E p \in Attempts, secure \in BOOLEAN, lens \in KeyPairLens :
          Begin(p, secure, lens)
    \/ \E p \in Attempts, outcome \in SendOutcomes : Send(p, outcome)
    \/ \E p \in Attempts, resp \in RecvOutcomes : Recv(p, resp)
    \/ \E p \in Attempts, noperms \in {{}, {AUDIO_NAME}} : Admit(p, noperms)

SpecHS == InitHS /\ [][NextHS]_vars

\* timeout(CONNECT_TIMEOUT, ..) completes: with what the stream gave, or with
\* Elapsed once the bound has passed
TimeoutsFire ==
    \A p \in Attempts :
        /\ WF_vars(\E outcome \in SendOutcomes : Send(p, outcome))
        /\ WF_vars(\E resp \in RecvOutcomes : Recv(p, resp))

SpecHSLive == SpecHS /\ TimeoutsFire

(***************************************************************************)
(* The life of the registry: connections come and go, then the last        *)
(* ServerPtr is dropped and the Server is destroyed (impl Drop for Server, *)
(* then the fields of the struct).                                         *)
(***************************************************************************)
join_pending_none(S, joined) == {}

\* the services the loop of drop has yet to join
join_pending(S, joined) == DOMAIN S \ joined

\* the last reference to the Server goes away and drop is entered; a running
\* create_tcp_connection holds a ServerPtr of its own
Drop_begin ==
    /\ teardown.state = "alive"
    /\ write_lock_free(lock)
    /\ \A p \in Attempts : pc[p] \notin {"send", "recv"}
    /\ teardown' = [state |-> "joining", joined |-> {},
                    registered |-> DOMAIN services]
    /\ UNCHANGED <<serverVars, hsVars, lock, subcall, audio, auxVars>>

\* line 492: s.join() returns for one more service
Drop_join(name) ==
    /\ teardown.state = "joining"
    /\ name \in join_pending(services, teardown.joined)
    /\ teardown' = [teardown EXCEPT !.joined = @ \cup {name}]
    /\ UNCHANGED <<serverVars, hsVars, lock, subcall, audio, auxVars>>

\* the loop is over and drop returns
Drop_return ==
    /\ teardown.state = "joining"
    /\ join_pending(services, teardown.joined) = {}
    /\ teardown' = [teardown EXCEPT !.state = "returned"]
    /\ UNCHANGED <<serverVars, hsVars, lock, subcall, audio, auxVars>>

\* after drop the fields of the struct are dropped: connections, services
Drop_fields ==
    /\ teardown.state = "returned"
    /\ teardown' = [teardown EXCEPT !.state = "destroyed"]
    /\ connections' = {}
    /\ services' = [n \in {} |-> {}]
    /\ UNCHANGED <<id_count, returned, calls, lastOp, hsVars, lock, subcall, audio, auxVars>>

\* the connections that create_tcp_connection has started
Started == {local[p].id : p \in {q \in Attempts : pc[q] = "started"}}

NextLife ==
    \/ /\ teardown.state = "alive"
       /\ \/ \E p \in Attempts : Begin(p, FALSE, <<0, 0>>)
          \/ \E p \in Attempts : Admit(p, {})
          \/ \E id \in Started, camera_exists \in BOOLEAN :
                AddCameraConnection(id, camera_exists)
          \/ \E camera_exists \in BOOLEAN :
                try_add_primary_camera_service(camera_exists)
          \/ try_add_primay_video_service
          \/ \E id \in Started : RemoveConnection(id)
          \/ CloseConnections
    \/ Drop_begin
    \/ \E name \in ServiceNames : Drop_join(name)
    \/ Drop_return
    \/ Drop_fields

SpecLife == InitHS /\ [][NextLife]_vars

(***************************************************************************)
(* Concurrent calls of Server::subscribe for one (service, connection)     *)
(* pair, statement by statement: the caller takes the write lock, the      *)
(* method compares is_subed with the request, then notifies the service.   *)
(***************************************************************************)
\* the first identifier the registry hands out
FirstId == CHOOSE id \in {next_id(new_id_count(r)) : r \in RandSamples} : TRUE

\* the registry with one connection registered, subscribed to "audio" or not,
\* and every caller yet to call; the calls are for the pair (name, FirstId)
InitSub ==
    /\ id_count = FirstId
    /\ returned = <<FirstId>>
    /\ connections = {FirstId}
    /\ \E S \in SUBSET {FirstId} : services = [n \in {AUDIO_NAME} |-> S]
    /\ calls = {}
    /\ lastOp = NoOp
    /\ InitAttempts
    /\ key_confirmed = TRUE
    /\ lock = 0
    /\ teardown = NoTeardown
    /\ audio = NoAudio
    /\ InitAux
    /\ \E name \in {AUDIO_NAME, "printer"} :
          subcall = [pc |-> [c \in Callers |-> "idle"],
                     sub |-> [c \in Callers |-> FALSE],
                     name |-> name,
                     before |-> services,
                     order |-> <<>>,
                     log |-> <<>>]

\* server.write().unwrap().subscribe(name, conn, sub): the write lock is
\* granted and the method is entered
subscribe_enter(c, sub) ==
    /\ subcall.pc[c] = "idle"
    /\ write_lock_free(lock)
    /\ lock' = c
    /\ subcall' = [subcall EXCEPT !.pc[c] = "entered", !.sub[c] = sub,
                                  !.order = Append(@, c)]
    /\ UNCHANGED <<serverVars, hsVars, teardown, audio, auxVars>>

\* lines 396-399: no such service, or is_subed equals the request: return, and
\* the caller's guard is dropped
subscribe_check(c) ==
    /\ subcall.pc[c] = "entered"
    /\ IF /\ contains(services, subcall.name)
          /\ is_subed(services, subcall.name, FirstId) # subcall.sub[c]
       THEN /\ subcall' = [subcall EXCEPT !.pc[c] = "notify"]
            /\ UNCHANGED lock
       ELSE /\ subcall' = [subcall EXCEPT !.pc[c] = "done"]
            /\ lock' = 0
    /\ UNCHANGED <<serverVars, hsVars, teardown, audio, auxVars>>

\* lines 400-404: the service is notified; the log keeps what it was told and
\* whether the connection was its subscriber at that moment
subscribe_notify(c) ==
    /\ subcall.pc[c] = "notify"
    /\ services' = IF subcall.sub[c]
                   THEN on_subscribe(services, subcall.name, FirstId)
                   ELSE on_unsubscribe(services, subcall.name, FirstId)
    /\ subcall' = [subcall EXCEPT
                      !.pc[c] = "done",
                      !.log = Append(@, [on_subscribe |-> subcall.sub[c],
                                         was_subed |-> is_subed(services,
                                                                subcall.name,
                                                                FirstId)])]
    /\ lock' = 0
    /\ UNCHANGED <<id_count, returned, connections, calls, lastOp>>
    /\ UNCHANGED <<hsVars, teardown, audio, auxVars>>

NextSub ==
    \/ \E c \in Callers, sub \in BOOLEAN : subscribe_enter(c, sub)
    \/ \E c \in Callers : subscribe_check(c)
    \/ \E c \in Callers : subscribe_notify(c)

SpecSub == InitSub /\ [][NextSub]_vars

(***************************************************************************)
(* audio_service: the voice-call input device, the RESTARTING flag and the *)
(* audio worker.  set_voice_call_input_device runs on the thread of a      *)
(* connection, statement by statement; the worker is cpal_impl::run (other *)
(* platforms) or pa_impl::run (linux, android), as the build has it.       *)
(***************************************************************************)
\* Option<String>: None, or Some of a device name
None == "None"

InputDevices == {None, "mic_a", "mic_b"}

is_some(device) == device # None

\* state.stream is None / run has no stream to the capture source
Closed == "closed"

Backends == {"cpal", "pa"}

InitAudio ==
    /\ InitServer
    /\ InitAttempts
    /\ key_confirmed = TRUE
    /\ lock = 0
    /\ teardown = NoTeardown
    /\ subcall = NoSubcall
    /\ InitAux
    /\ \E backend \in Backends :
          audio = [backend |-> backend,
                   device |-> None,          \* VOICE_CALL_INPUT_DEVICE
                   restarting |-> FALSE,     \* RESTARTING
                   wpc |-> "idle",           \* where the writer stands
                   warg |-> None,            \* the device it was called with
                   kpc |-> "idle",           \* where the worker stands
                   opened |-> Closed]        \* the device the stream was opened with

AudioStep(a) ==
    /\ audio' = a
    /\ UNCHANGED <<serverVars, hsVars, lock, teardown, subcall, auxVars>>

\* lines 56-59: the call, and its first look at the stored device
set_voice_call_input_device(device, set_if_present) ==
    /\ audio.wpc = "idle"
    /\ AudioStep(IF ~set_if_present /\ is_some(audio.device)
                 THEN audio
                 ELSE [audio EXCEPT !.wpc = "l61", !.warg = device])

\* lines 61-63: nothing to do if the stored device is the requested one
set_compare ==
    /\ audio.wpc = "l61"
    /\ AudioStep(IF audio.device = audio.warg
                 THEN [audio EXCEPT !.wpc = "idle", !.warg = None]
                 ELSE [audio EXCEPT !.wpc = "l64"])

set_store_without_restart ==
    /\ audio.wpc = "l64"
    /\ AudioStep([audio EXCEPT !.wpc = "idle", !.device = audio.warg,
                               !.warg = None])

\* line 64: the device is stored
set_store ==
    /\ audio.wpc = "l64"
    /\ AudioStep([audio EXCEPT !.wpc = "l79", !.device = audio.warg,
                               !.warg = None])

\* restart, lines 79-81: return if RESTARTING is already set
restart_load ==
    /\ audio.wpc = "l79"
    /\ AudioStep(IF audio.restarting
                 THEN [audio EXCEPT !.wpc = "idle"]
                 ELSE [audio EXCEPT !.wpc = "l82"])

\* restart, line 82
restart_store ==
    /\ audio.wpc = "l82"
    /\ AudioStep([audio EXCEPT !.wpc = "idle", !.restarting = TRUE])

\* cpal_impl::run, lines 236-242, with run_serv_snapshot when RESTARTING is
\* clear: a missing stream is opened by play, which reads the stored device
\* and may fail
cpal_run(play_ok) ==
    /\ audio.backend = "cpal"
    /\ audio.kpc = "idle"
    /\ AudioStep(IF audio.restarting
                 THEN [audio EXCEPT !.kpc = "l205"]
                 ELSE IF audio.opened = Closed /\ play_ok
                      THEN [audio EXCEPT !.opened = audio.device]
                      ELSE audio)

run_restart_play_clears_anyway(play_ok) ==
    /\ audio.kpc = "l205"
    /\ AudioStep(IF play_ok
                 THEN [audio EXCEPT !.kpc = "l216", !.opened = audio.device]
                 ELSE [audio EXCEPT !.kpc = "l216", !.opened = Closed])

\* run_restart, lines 205-212: the stream is dropped and play opens a new one
\* on the stored device; if play fails run_restart returns its error
run_restart_play(play_ok) ==
    /\ audio.kpc = "l205"
    /\ AudioStep(IF play_ok
                 THEN [audio EXCEPT !.kpc = "l216", !.opened = audio.device]
                 ELSE [audio EXCEPT !.kpc = "idle", !.opened = Closed])

\* run_restart, lines 213-217: RESTARTING is cleared
run_restart_clear ==
    /\ audio.kpc = "l216"
    /\ AudioStep([audio EXCEPT !.kpc = "idle", !.restarting = FALSE])

\* pa_impl::run, lines 102-104: a new run clears RESTARTING first
pa_run_clear ==
    /\ audio.backend = "pa"
    /\ audio.kpc = "idle"
    /\ AudioStep([audio EXCEPT !.kpc = "l106", !.restarting = FALSE])

\* lines 106-119: the ipc stream is connected, or run returns the error; the
\* stored device is sent as the "audio-input" of the capture
pa_run_config(connect_ok) ==
    /\ audio.kpc = "l106"
    /\ AudioStep(IF connect_ok
                 THEN [audio EXCEPT !.kpc = "l124", !.opened = audio.device]
                 ELSE [audio EXCEPT !.kpc = "idle", !.opened = Closed])

\* line 124: the loop ends once RESTARTING is set; run returns and the stream
\* is dropped
pa_run_exit ==
    /\ audio.kpc = "l124"
    /\ audio.restarting
    /\ AudioStep([audio EXCEPT !.kpc = "idle", !.opened = Closed])

NextAudio ==
    \/ \E device \in InputDevices, set_if_present \in BOOLEAN :
          set_voice_call_input_device(device, set_if_present)
    \/ set_compare
    \/ set_store
    \/ restart_load
    \/ restart_store
    \/ \E play_ok \in BOOLEAN : cpal_run(play_ok)
    \/ \E play_ok \in BOOLEAN : run_restart_play(play_ok)
    \/ run_restart_clear
    \/ pa_run_clear
    \/ \E connect_ok \in BOOLEAN : pa_run_config(connect_ok)
    \/ pa_run_exit

SpecAudio == InitAudio /\ [][NextAudio]_vars

(***************************************************************************)
(* Properties of create_tcp_connection, checked under SpecHS.              *)
(***************************************************************************)
Begun == {p \in Attempts : pc[p] # "idle"}

\* C1: the identifiers get_new_id returns are pairwise distinct, whatever way
\* the concurrent connection attempts interleave: N calls, N values.
C1_IdsDistinct ==
    /\ \A i, j \in 1..Len(returned) : i # j => returned[i] # returned[j]
    /\ \A p, q \in Begun : p # q => local[p].id # local[q].id
    /\ Cardinality({local[p].id : p \in Begun}) = Len(returned)

C1_Witness ==
    /\ Len(returned) >= 2
    /\ \A p \in Attempts : p <= 2 => pc[p] # "idle"

BadLength(resp) ==
    is_public_key(resp) /\ asymmetric_len(resp) \notin {0, BOX_PUBLICKEYBYTES}

FailedIsFinal ==
    \A p \in Attempts :
        pc[p] = "failed" =>
            /\ pc'[p] = "failed"
            /\ stream'[p] = stream[p]
            /\ err'[p] = err[p]

\* C2: in a secure handshake a public-key record whose key length is neither
\* 0 nor the public-key size fails the attempt with the bad-length protocol
\* error; the stream is dropped and Connection::start is never reached.
C2_BadLengthRejected ==
    /\ [](\A p \in Attempts :
             BadLength(local[p].resp) =>
                 /\ pc[p] = "failed"
                 /\ err[p] = BAD_LENGTH
                 /\ stream[p].owner = "dropped"
                 /\ local[p].id \notin connections)
    /\ [][FailedIsFinal]_vars

C2_Witness ==
    \E p \in Attempts :
        /\ local[p].secure
        /\ local[p].resp = "public_key_33"
        /\ pc[p] = "failed"
        /\ stream[p].owner = "dropped"

\* C3: in a secure handshake an absent, unparseable or wrong-typed answer of
\* the peer fails the attempt, and the connection is never admitted.
C3_Original ==
    \A p \in Attempts :
        local[p].resp \in {"none", "unparseable", "other_message"} =>
            /\ pc[p] = "failed"
            /\ err[p] # ""
            /\ stream[p].owner # "connection"

\* C4: an empty key in the peer's public-key record raises no error: the
\* stream key is never set, the key-confirmed flag is cleared and the
\* connection goes on to Connection::start.
C4_EmptyKeyUnpins ==
    [][\A p \in Attempts :
          /\ Recv(p, "public_key_0") =>
                /\ err'[p] = ""
                /\ pc'[p] = "started"
                /\ stream'[p] = [owner |-> "connection", key |-> FALSE]
                /\ key_confirmed' = FALSE
          /\ local[p].resp = "public_key_0" =>
                /\ ~stream'[p].key
                /\ pc'[p] = "started"]_vars

C4_Witness ==
    \E p \in Attempts :
        /\ local[p].secure
        /\ local[p].resp = "public_key_0"
        /\ pc[p] = "started"
        /\ ~stream[p].key
        /\ ~key_confirmed

RegistryAsConstructed ==
    /\ connections = {}
    /\ \A n \in DOMAIN services : services[n] = {}
    /\ \E r \in RandSamples : id_count = new_id_count(r)

\* C5 as claimed: after a failed handshake the registry, the id counter
\* included, is as it was before the attempt began; stated for an attempt
\* that began in the registry as constructed and is the only one so far.
C5_Original ==
    \A p \in Attempts :
        (pc[p] = "failed" /\ \A q \in Attempts \ {p} : pc[q] = "idle")
            => RegistryAsConstructed

\* the steps of a create_tcp_connection call: they leave connections and the
\* subscriber sets alone, get_new_id at the start advances id_count by one,
\* and they change no other attempt
HandshakeStepFrame ==
    \A p \in Attempts :
        pc'[p] # pc[p] =>
            /\ connections' = connections
            /\ services' = services
            /\ id_count' = IF pc[p] = "idle" THEN id_count + 1 ELSE id_count
            /\ \A q \in Attempts \ {p} :
                  /\ pc'[q] = pc[q]
                  /\ local'[q] = local[q]
                  /\ stream'[q] = stream[q]
                  /\ err'[q] = err[q]

\* C5, amended: an attempt whose handshake fails performs one registry
\* operation, the get_new_id it starts with, which advances id_count by one;
\* connections and every subscriber set are untouched by the attempt, its
\* identifier is never registered, and no other attempt's state changes.
C5_Amended ==
    /\ [](\A p \in Attempts :
             pc[p] = "failed" =>
                 /\ local[p].id \notin connections
                 /\ \A n \in DOMAIN services : local[p].id \notin services[n]
                 /\ id_count >= local[p].id)
    /\ [][HandshakeStepFrame /\ FailedIsFinal]_vars

C5_Witness ==
    \E p, q \in Attempts :
        /\ pc[p] = "failed"
        /\ pc[q] = "started"
        /\ local[q].id \in connections
        /\ local[q].id \in services[AUDIO_NAME]

(***************************************************************************)
(* Properties of the registry operations, checked under Spec.              *)
(***************************************************************************)
Monitor0 == get_service_name(Monitor, 0)
Monitor1 == get_service_name(Monitor, 1)
Camera0 == get_service_name(Camera, 0)

Listed(displays) == {displays[i] : i \in 1..Len(displays)}

SubscribeOp(name, id, sub) ==
    [NoOp EXCEPT !.op = "subscribe", !.conn = id, !.name = name, !.sub = sub]

\* C6: subscribe(s, c, true) right after subscribe(s, c, true) changes no
\* subscriber set and notifies no service; subscribe(s, c, false) for a
\* connection that is not subscribed to s changes and notifies nothing.
C6_SubscribeIdempotent ==
    [][lastOp'.op = "subscribe" =>
       \A name \in ServiceNames, id \in Conns :
          /\ (lastOp = SubscribeOp(name, id, TRUE) /\ Subscribe(name, id, TRUE))
                => (services' = services /\ calls' = {})
          /\ (/\ Subscribe(name, id, FALSE)
              /\ ~(contains(services, name) /\ is_subed(services, name, id)))
                => (services' = services /\ calls' = {})]_vars

C6_Witness ==
    \E name \in DOMAIN services, id \in Conns :
        /\ lastOp = SubscribeOp(name, id, TRUE)
        /\ calls = {}
        /\ id \in services[name]

\* add_connection with an empty denylist, both monitor services registered,
\* on a connection not subscribed to the secondary one
C7_Admission(id) ==
    (/\ AddConnection(id, {})
     /\ contains(services, Monitor0)
     /\ contains(services, Monitor1)
     /\ id \notin services[Monitor1])
        => (id \in services'[Monitor0] /\ id \notin services'[Monitor1])

\* an admitted connection becomes a subscriber of the secondary monitor
C7_SecondaryGained(id) ==
    /\ id \in connections
    /\ contains(services, Monitor1)
    /\ id \notin services[Monitor1]
    /\ id \in services'[Monitor1]

C7_ByCaptureDisplays(id) ==
    \E displays \in DisplayLists, exclude \in BOOLEAN :
        /\ 1 \in Listed(displays)
        /\ CaptureDisplays(id, Monitor, displays, TRUE, exclude)

\* C7 as claimed: admitted with an empty denylist, a connection is subscribed
\* to the primary monitor and not to the secondary, and only a
\* capture_displays that includes the secondary subscribes it there.
C7_Original ==
    [][\A id \in Conns :
          /\ C7_Admission(id)
          /\ C7_SecondaryGained(id) => C7_ByCaptureDisplays(id)]_vars

\* C7, amended: ... and only an explicit request subscribes it there: a
\* capture_displays that includes the secondary, or subscribe(secondary,
\* conn, true).
C7_Amended ==
    [][(lastOp'.op = "add_connection" \/ services' # services) =>
       \A id \in Conns :
          /\ C7_Admission(id)
          /\ C7_SecondaryGained(id) =>
                (C7_ByCaptureDisplays(id) \/ Subscribe(Monitor1, id, TRUE))]_vars

C7_Witness ==
    /\ lastOp.op = "add_connection"
    /\ lastOp.noperms = {}
    /\ contains(services, Monitor0)
    /\ contains(services, Monitor1)
    /\ <<"on_subscribe", Monitor0, lastOp.conn>> \in calls
    /\ lastOp.conn \in services[Monitor0]
    /\ lastOp.conn \notin services[Monitor1]

\* C8: add_connection subscribes the connection to no service named in its
\* denylist, "audio" in particular, whatever services are registered.
C8_DenylistRespected ==
    [][lastOp'.op = "add_connection" =>
       \A id \in Conns, noperms \in Denylists :
          AddConnection(id, noperms) =>
              \A n \in noperms :
                  /\ <<"on_subscribe", n, id>> \notin calls'
                  /\ contains(services, n) =>
                        (id \in services'[n] => id \in services[n])]_vars

C8_Witness ==
    /\ lastOp.op = "add_connection"
    /\ AUDIO_NAME \in lastOp.noperms
    /\ contains(services, AUDIO_NAME)
    /\ lastOp.conn \notin services[AUDIO_NAME]
    /\ contains(services, Monitor0)
    /\ lastOp.conn \in services[Monitor0]

\* capture_displays(conn, Monitor, [1], include, no exclude) on a connection
\* subscribed to display 0 keeps display 0 and adds display 1
C9_Include(id) ==
    (/\ CaptureDisplays(id, Monitor, <<1>>, TRUE, FALSE)
     /\ contains(services, Monitor0)
     /\ contains(services, Monitor1)
     /\ id \in services[Monitor0])
        => (id \in services'[Monitor0] /\ id \in services'[Monitor1])

\* the call that follows it: the same list, exclude and no include
C9_ExcludeCall(id) ==
    /\ lastOp.op = "capture_displays"
    /\ lastOp.conn = id
    /\ lastOp.source = Monitor
    /\ lastOp.include
    /\ ~lastOp.exclude
    /\ calls = {<<"on_subscribe", Monitor1, id>>}
    /\ CaptureDisplays(id, Monitor, <<1>>, FALSE, TRUE)
    /\ contains(services, Monitor0)
    /\ contains(services, Monitor1)
    /\ id \in services[Monitor0]
    /\ id \in services[Monitor1]

\* C9 as claimed: ... and the second call removes display 1 and leaves
\* display 0.
C9_Original ==
    [][\A id \in Conns :
          /\ C9_Include(id)
          /\ C9_ExcludeCall(id) =>
                (id \notin services'[Monitor1] /\ id \in services'[Monitor0])]_vars

\* C9, amended: ... and the second call, with include=false, exclude=true and
\* the list [1], leaves display 1 subscribed and removes display 0, like every
\* video service the list does not name.
C9_Amended ==
    [][lastOp'.op = "capture_displays" =>
       \A id \in Conns :
          /\ C9_Include(id)
          /\ C9_ExcludeCall(id) =>
                /\ id \in services'[Monitor1]
                /\ id \notin services'[Monitor0]
                /\ \A n \in DOMAIN services :
                      (is_video_service_name(n) /\ n # Monitor1)
                          => id \notin services'[n]]_vars

C9_Witness ==
    /\ lastOp.op = "capture_displays"
    /\ lastOp.source = Monitor
    /\ ~lastOp.include
    /\ lastOp.exclude
    /\ contains(services, Monitor0)
    /\ contains(services, Monitor1)
    /\ <<"on_unsubscribe", Monitor0, lastOp.conn>> \in calls
    /\ lastOp.conn \in services[Monitor1]

\* C10: capture_displays changes the connection's subscription only on the
\* services of the requested source kind: no service of the other kind and no
\* other service gains or loses a subscriber.
C10_Original ==
    [][\A id \in Conns, source \in VideoSources, displays \in DisplayLists,
          include \in BOOLEAN, exclude \in BOOLEAN :
          CaptureDisplays(id, source, displays, include, exclude) =>
              \A n \in DOMAIN services :
                  ~starts_with(n, service_name_prefix(source))
                      => services'[n] = services[n]]_vars

(***************************************************************************)
(* Properties of the life of the registry, checked under SpecLife.         *)
(***************************************************************************)
\* C11: after remove_connection(conn) the connection is a subscriber of no
\* service and no key of connections, whatever it was subscribed to; the
\* records and the subscriptions of every other connection are as before.
C11_RemovedEverywhere ==
    [][\A id \in Conns :
          RemoveConnection(id) =>
              /\ id \notin connections'
              /\ DOMAIN services' = DOMAIN services
              /\ \A n \in DOMAIN services' : id \notin services'[n]
              /\ \A other \in Conns \ {id} :
                    /\ other \in connections' <=> other \in connections
                    /\ \A n \in DOMAIN services :
                          other \in services'[n] <=> other \in services[n]]_vars

C11_Witness ==
    /\ lastOp.op = "remove_connection"
    /\ lastOp.conn \notin connections
    /\ {<<"on_unsubscribe", AUDIO_NAME, lastOp.conn>>,
        <<"on_unsubscribe", Monitor0, lastOp.conn>>} \subseteq calls
    /\ \E other \in connections :
          /\ other # lastOp.conn
          /\ other \in services[AUDIO_NAME]
          /\ other \in services[Monitor0]

C19_BroadcastStop ==
    [][CloseConnections =>
          /\ calls' = {<<"send_stop_service", "1", id>> : id \in connections}
          /\ connections' = connections
          /\ services' = services]_vars

C19_Witness ==
    /\ lastOp.op = "close_connections"
    /\ Cardinality(connections) >= 2
    /\ calls = {<<"send_stop_service", "1", id>> : id \in connections}
    /\ \A id \in connections : id \in services[AUDIO_NAME]

\* C20: add_camera_connection subscribes the connection to the primary
\* camera service, when a primary camera exists and that service is
\* registered, and to nothing otherwise; it subscribes it to no other service,
\* and it always inserts the connection into connections.
C20_CameraOnly ==
    [][\A id \in Conns, camera_exists \in BOOLEAN :
          AddCameraConnection(id, camera_exists) =>
              /\ id \in connections'
              /\ connections' = connections \cup {id}
              /\ calls' = IF camera_exists /\ contains(services, Camera0)
                          THEN {<<"on_subscribe", Camera0, id>>}
                          ELSE {}
              /\ \A n \in DOMAIN services :
                    services'[n] = IF n = Camera0 /\ camera_exists
                                   THEN services[n] \cup {id}
                                   ELSE services[n]]_vars

C20_Witness ==
    /\ lastOp.op = "add_camera_connection"
    /\ lastOp.camera
    /\ {AUDIO_NAME, Monitor0, Camera0} \subseteq DOMAIN services
    /\ lastOp.conn \in connections
    /\ lastOp.conn \in services[Camera0]
    /\ lastOp.conn \notin services[AUDIO_NAME]
    /\ lastOp.conn \notin services[Monitor0]

(***************************************************************************)
(* Properties of concurrent subscribe calls, checked under SpecSub.        *)
(***************************************************************************)
RECURSIVE SerialFrom(_, _)
\* the subscriber sets after the calls of the callers in order, one after the
\* other, each as one Server::subscribe
SerialFrom(S, order) ==
    IF order = <<>>
    THEN S
    ELSE SerialFrom(subscribe(S, subcall.name, FirstId,
                              subcall.sub[Head(order)]).svc,
                    Tail(order))

\* C13: concurrent subscribe calls for one (service, connection) pair run
\* one at a time under the write lock: whenever no call is inside, the
\* subscriber sets are those of the calls made so far taken in a serial
\* order, and the service is never told on_subscribe for a subscriber nor
\* on_unsubscribe for a connection that is not one.
C13_SubscribeAtomic ==
    /\ Cardinality({c \in Callers : subcall.pc[c] \in {"entered", "notify"}}) <= 1
    /\ lock = 0 => services = SerialFrom(subcall.before, subcall.order)
    /\ \A i \in 1..Len(subcall.log) :
          subcall.log[i].on_subscribe # subcall.log[i].was_subed

C13_Witness ==
    /\ subcall.name = AUDIO_NAME
    /\ \A c \in Callers : subcall.pc[c] = "done"
    /\ \A c \in Callers : c <= 2 => subcall.sub[c]
    /\ subcall.before[AUDIO_NAME] = {}
    /\ Len(subcall.log) = 1
    /\ FirstId \in services[AUDIO_NAME]

(***************************************************************************)
(* Identifiers of registered connections, checked under SpecLife.          *)
(***************************************************************************)
\* how many times get_new_id has returned the value k
TimesReturned(k) == Cardinality({i \in 1..Len(returned) : returned[i] = k})

\* get_new_id returns a value in this step
IdReturned == Len(returned') = Len(returned) + 1

\* C14: every key of connections is a value get_new_id returned, and returned
\* once; no two connections hold the same identifier; and get_new_id never
\* returns an identifier that a registered connection holds.
C14_KeysAllocatedOnce ==
    /\ [](/\ connections \subseteq Conns
          /\ \A k \in connections : TimesReturned(k) = 1
          /\ \A p, q \in Begun : p # q => local[p].id # local[q].id)
    /\ [][IdReturned => returned'[Len(returned')] \notin connections \cup Conns]_vars

C14_Witness ==
    /\ Len(returned) >= 2
    /\ returned[1] # returned[2]
    /\ {returned[1], returned[2]} \subseteq connections
    /\ lastOp.op = "add_camera_connection"

(***************************************************************************)
(* When the handshake runs, its time bounds and what a stalled attempt     *)
(* holds, checked under SpecHS and SpecHSLive.                             *)
(***************************************************************************)
NoHandshake(p) ==
    /\ pc'[p] = "started"
    /\ stream'[p] = [owner |-> "connection", key |-> FALSE]
    /\ err'[p] = ""
    /\ local'[p].resp = ""

\* C15: the signed identity is sent, and the answer awaited, iff secure is
\* true and the key pair has the lengths of a signing key pair; otherwise
\* nothing is sent or awaited and Connection::start gets the raw stream, with
\* no error.
C15_HandshakeIffSecureAndKeyed ==
    /\ [][\A p \in Attempts, secure \in BOOLEAN, lens \in KeyPairLens :
             Begin(p, secure, lens) =>
                 IF /\ secure
                    /\ lens[1] = SIGN_SECRETKEYBYTES
                    /\ lens[2] = SIGN_PUBLICKEYBYTES
                 THEN pc'[p] = "send" /\ stream'[p].owner = "attempt"
                 ELSE NoHandshake(p)]_vars
    /\ [](\A p \in Begun :
             ~local[p].secure =>
                 /\ pc[p] = "started"
                 /\ stream[p] = [owner |-> "connection", key |-> FALSE]
                 /\ err[p] = ""
                 /\ local[p].resp = "")

C15_Witness ==
    \E p \in Attempts :
        /\ local[p].secure
        /\ pc[p] = "started"
        /\ local[p].resp = ""
        /\ stream[p] = [owner |-> "connection", key |-> FALSE]
        /\ err[p] = ""
        /\ local[p].id \in connections

TimedOut(p) ==
    /\ pc'[p] = "failed"
    /\ err'[p] = "timeout"
    /\ stream'[p].owner = "dropped"

\* C16: the send of the signed identity and the wait for the answer are each
\* bounded: when the bound passes the attempt fails with the timeout error,
\* which is none of the protocol errors, and Connection::start is never
\* reached; so an attempt that is sending or waiting ends, started or failed.
C16_TimeBounded ==
    /\ [][\A p \in Attempts :
             /\ Send(p, "elapsed") => TimedOut(p)
             /\ Recv(p, "elapsed") => TimedOut(p)]_vars
    /\ [][FailedIsFinal]_vars
    /\ [](\A p \in Attempts :
             err[p] = "timeout" =>
                 /\ pc[p] = "failed"
                 /\ err[p] \notin {BAD_LENGTH, BAD_FORMAT, NO_RESPONSE, "io", "decode"}
                 /\ local[p].id \notin connections)
    /\ \A p \in Attempts :
          (pc[p] \in {"send", "recv"}) ~> (pc[p] \in {"started", "failed"})

C16_Witness ==
    \E p \in Attempts :
        /\ local[p].secure
        /\ local[p].resp = "elapsed"
        /\ pc[p] = "failed"
        /\ err[p] = "timeout"
        /\ stream[p].owner = "dropped"

\* the attempts are numbered in the order they begin
NextToBegin(q) == pc[q] = "idle" /\ \A r \in Attempts : r < q => pc[r] # "idle"

\* C17: an attempt suspended in its send or its wait does not hold the
\* registry lock: every other attempt can take its next step (begin and get
\* an identifier, send, receive, be admitted) and the registry operations
\* add_connection, subscribe and remove_connection can run.
C17_OnlyOwnAttemptStalls ==
    \A p \in Attempts :
        pc[p] \in {"send", "recv"} =>
            /\ lock = 0
            /\ \A q \in Attempts \ {p} :
                  /\ NextToBegin(q) => ENABLED Begin(q, TRUE, <<64, 32>>)
                  /\ pc[q] = "send" => ENABLED Send(q, "ok")
                  /\ pc[q] = "recv" => ENABLED Recv(q, "public_key_32")
                  /\ (pc[q] = "started" /\ local[q].id \notin connections)
                        => ENABLED Admit(q, {})
            /\ \A id \in Conns :
                  /\ ENABLED AddConnection(id, {})
                  /\ ENABLED Subscribe(AUDIO_NAME, id, FALSE)
                  /\ ENABLED RemoveConnection(id)

C17_Witness ==
    \E p, q \in Attempts :
        /\ pc[p] = "recv"
        /\ pc[q] = "started"
        /\ local[q].id > local[p].id
        /\ local[q].resp = "public_key_32"
        /\ local[q].id \in connections

(***************************************************************************)
(* The restart of the audio service, checked under SpecAudio.              *)
(***************************************************************************)
\* no call of set_voice_call_input_device is under way and the worker is
\* between two steps (cpal) or in its capture loop (pa)
AudioAtRest ==
    /\ audio.wpc = "idle"
    /\ audio.kpc = IF audio.backend = "cpal" THEN "idle" ELSE "l124"

\* C18: every change of the stored input device restarts the audio service
\* with the new value: the system is never at rest with RESTARTING clear and
\* a capture stream opened on a device other than the stored one.
C18_Original ==
    (AudioAtRest /\ ~audio.restarting /\ audio.opened # Closed)
        => audio.opened = audio.device

(***************************************************************************)
(* More properties of the registry operations, checked under Spec.         *)
(***************************************************************************)
\* C21: subscribe with a name that is no registered service is ignored: no
\* service is created, no subscriber set and no connection record changes,
\* no service is notified, and the call returns normally.
C21_UnknownNameIgnored ==
    [][lastOp'.op = "subscribe" =>
       \A name \in ServiceNames, id \in Conns, sub \in BOOLEAN :
          (Subscribe(name, id, sub) /\ name \notin DOMAIN services)
              => /\ services' = services
                 /\ connections' = connections
                 /\ calls' = {}]_vars

C21_Witness ==
    /\ lastOp.op = "subscribe"
    /\ lastOp.sub
    /\ lastOp.name = "printer"
    /\ lastOp.name \notin DOMAIN services
    /\ lastOp.conn \in connections
    /\ calls = {}

\* the services admission subscribes to: every one that is not a video
\* service, and the monitor of the primary display
DefaultService(n) == n \notin {Monitor0, Monitor1, Camera0} \/ n = Monitor0

\* C22: add_connection(conn, noperms), for a connection subscribed nowhere,
\* leaves it subscribed to a registered service iff the name is not in
\* noperms and the service is not a video service or is the primary monitor;
\* so to no camera, the primary one included, and to no other monitor.
C22_AdmissionSet ==
    [][lastOp'.op = "add_connection" =>
       \A id \in Conns, noperms \in Denylists :
          (/\ AddConnection(id, noperms)
           /\ \A n \in DOMAIN services : id \notin services[n])
              => /\ DOMAIN services' = DOMAIN services
                 /\ \A n \in DOMAIN services :
                       id \in services'[n] <=> (n \notin noperms /\ DefaultService(n))
                 /\ Camera0 \in DOMAIN services => id \notin services'[Camera0]
                 /\ Monitor1 \in DOMAIN services => id \notin services'[Monitor1]]_vars

C22_Witness ==
    /\ lastOp.op = "add_connection"
    /\ lastOp.noperms = {AUDIO_NAME}
    /\ DOMAIN services = {AUDIO_NAME, Monitor0, Monitor1, Camera0}
    /\ calls = {<<"on_subscribe", Monitor0, lastOp.conn>>}
    /\ \A n \in DOMAIN services : lastOp.conn \in services[n] <=> n = Monitor0

\* C23: after capture_displays(conn, source, D, include, exclude), both set,
\* the connection is subscribed to a registered service of the kind source
\* iff its index is in D, whatever it was subscribed to; an index of D with
\* no registered service is ignored, and no service is created.
C23_ExactlyTheseDisplays ==
    [][(lastOp'.op = "capture_displays" /\ lastOp'.include /\ lastOp'.exclude) =>
       \A displays \in DisplayLists :
          \/ /\ DOMAIN services' = DOMAIN services
             /\ \A d \in DisplayIdx :
                   get_service_name(lastOp'.source, d) \in DOMAIN services
                       => (lastOp'.conn \in services'[get_service_name(lastOp'.source, d)]
                              <=> d \in Listed(displays))
          \/ services' # capture_displays(services, lastOp'.conn, lastOp'.source,
                                          displays, TRUE, TRUE).svc]_vars

C23_Witness ==
    /\ lastOp.op = "capture_displays"
    /\ lastOp.source = Monitor
    /\ lastOp.include
    /\ lastOp.exclude
    /\ calls = {<<"on_subscribe", Monitor1, lastOp.conn>>,
                <<"on_unsubscribe", Monitor0, lastOp.conn>>}
    /\ lastOp.conn \in services[Monitor1]
    /\ lastOp.conn \notin services[Monitor0]

AddsService ==
    lastOp'.op \in {"try_add_primary_camera_service",
                    "try_add_primay_video_service", "add_service"}

\* C26: no registry operation removes a registered service, and none that adds
\* one replaces a registered one: its subscribers stay.  try_add_primary_
\* camera_service adds the camera service only if a primary camera exists;
\* each of the two try_add operations does nothing the second time.
C26_ServicesOnlyGrow ==
    [][/\ DOMAIN services \subseteq DOMAIN services'
       /\ AddsService =>
             /\ connections' = connections
             /\ \A n \in DOMAIN services : services'[n] = services[n]
             /\ \A n \in DOMAIN services' \ DOMAIN services : services'[n] = {}
       /\ lastOp'.op = "try_add_primary_camera_service" =>
             /\ DOMAIN services' \subseteq DOMAIN services \cup {Camera0}
             /\ ~lastOp'.camera => services' = services
             /\ lastOp = lastOp' => services' = services
       /\ lastOp'.op = "try_add_primay_video_service" =>
             /\ DOMAIN services' = DOMAIN services \cup {Monitor0}
             /\ lastOp = lastOp' => services' = services]_vars

C26_Witness ==
    /\ lastOp.op = "try_add_primay_video_service"
    /\ DOMAIN services = {AUDIO_NAME, Monitor0, Camera0}
    /\ services[Monitor0] # {}
    /\ services[Camera0] # {}

(***************************************************************************)
(* The seed of id_count over the whole range of i32: every residue of      *)
(* % 1000 of either sign, and the ends of the range.                       *)
(***************************************************************************)
SeedSamples ==
    (-2000..2000) \cup {-2147483647 - 1, -2147483647, 2147483646, 2147483647}

InitSeed ==
    /\ \E r \in SeedSamples : id_count = new_id_count(r)
    /\ returned = <<>>
    /\ connections = {}
    /\ services = [n \in {AUDIO_NAME} |-> {}]
    /\ calls = {}
    /\ lastOp = NoOp
    /\ InitAttempts
    /\ InitRest
    /\ key_confirmed = TRUE

\* identifiers are taken by get_new_id, directly or in create_tcp_connection
NextSeed ==
    \/ get_new_id
    \/ \E p \in Attempts : Begin(p, FALSE, <<0, 0>>)

SpecSeed == InitSeed /\ [][NextSeed]_vars

\* C25: id_count is seeded in 1..1999 whatever i32 the random source gives;
\* each get_new_id adds exactly 1 and returns the new value, so the
\* identifiers returned are positive and strictly increasing.
C25_SeedAndIds ==
    /\ [](returned = <<>> => id_count \in 1..1999)
    /\ [][returned' # returned =>
             /\ id_count' = id_count + 1
             /\ returned' = Append(returned, id_count + 1)]_vars
    /\ [][id_count' # id_count => returned' # returned]_vars
    /\ [](\A i \in 1..Len(returned) :
             /\ returned[i] > 0
             /\ i > 1 => returned[i] = returned[i - 1] + 1)

C25_Witness ==
    /\ Len(returned) >= 2
    /\ returned[1] = 2
    /\ returned[2] = 3
    /\ id_count = 3

(***************************************************************************)
(* Properties of the audio worker's restart, checked under SpecAudio.      *)
(***************************************************************************)
\* C27: in cpal_impl a step that finds RESTARTING set drops the stream, and
\* clears the flag only after play has made a new stream in that step; if
\* play fails the flag stays set with no stream, and the next step restarts
\* again; restart() sets the flag and touches neither stream nor worker.
C27_RestartStep ==
    [][audio.backend = "cpal" =>
          /\ (audio.kpc = "idle" /\ audio'.kpc # "idle") =>
                (audio.restarting /\ audio'.kpc = "l205")
          /\ (audio.kpc = "idle" /\ audio.restarting /\ audio'.kpc = "idle") =>
                audio'.opened = audio.opened
          /\ audio.kpc = "l205" => audio.restarting
          /\ (audio.kpc = "l205" /\ audio'.kpc # "l205") =>
                \/ /\ audio'.kpc = "l216"
                   /\ audio'.opened = audio.device
                   /\ audio'.restarting
                \/ /\ audio'.kpc = "idle"
                   /\ audio'.opened = Closed
                   /\ audio'.restarting
          /\ (audio.restarting /\ ~audio'.restarting) =>
                /\ audio.kpc = "l216"
                /\ audio'.kpc = "idle"
                /\ audio'.opened = audio.opened
          /\ audio.kpc = "l216" => audio.opened # Closed
          /\ (audio.wpc \in {"l79", "l82"} /\ audio'.wpc # audio.wpc) =>
                /\ audio'.opened = audio.opened
                /\ audio'.kpc = audio.kpc
                /\ audio'.device = audio.device
                /\ audio'.restarting # audio.restarting => audio'.restarting]_vars

C27_Witness ==
    /\ audio # NoAudio
    /\ audio.backend = "cpal"
    /\ audio.kpc = "l216"
    /\ audio.restarting
    /\ audio.opened = "mic_b"
    /\ audio.device = "mic_b"

(***************************************************************************)
(* More properties of create_tcp_connection, checked under SpecHS.         *)
(***************************************************************************)
\* C30: the handshake writes the key-confirmed flag only when the peer's
\* public-key record carries an empty key; a handshake that succeeds, one
\* that is skipped and one that fails leave the flag as it was.
C30_FlagWrittenOnUnpinOnly ==
    [][/\ key_confirmed' # key_confirmed =>
             \E p \in Attempts :
                /\ pc[p] = "recv"
                /\ pc'[p] = "started"
                /\ is_public_key(local'[p].resp)
                /\ asymmetric_len(local'[p].resp) = 0
                /\ ~stream'[p].key
                /\ ~key_confirmed'
       /\ \A p \in Attempts :
             (pc'[p] # pc[p] /\ (pc'[p] = "failed" \/ pc[p] = "idle" \/ stream'[p].key))
                 => key_confirmed' = key_confirmed]_vars

C30_Witness ==
    /\ key_confirmed
    /\ \E p, q \in Attempts :
          /\ pc[p] = "failed"
          /\ err[p] = BAD_LENGTH
          /\ pc[q] = "started"
          /\ stream[q].key

(***************************************************************************)
(* send_f32: the zero gate in front of the encoder.  AUDIO_ZERO_COUNT is a *)
(* static u16, set to 0 when a stream is built and by every frame that has *)
(* a non-zero sample.                                                      *)
(***************************************************************************)
MAX_AUDIO_ZERO_COUNT == 800

\* u16
U16 == 65536

\* how long a run of all-zero frames the model follows
MaxZeroRun == 804

\* the frames handed to send_f32: none, one or two samples
Frames == {<<>>, <<0>>, <<1>>, <<0, 0>>, <<0, 1>>, <<1, 0>>}

\* line 476: data.iter().filter(|x| **x != 0.).next().is_some()
has_nonzero(data) == \E i \in 1..Len(data) : data[i] # 0

\* AUDIO_ZERO_COUNT += 1 on a u16
add_one_u16(count) == (count + 1) % U16

zero_gate_closes_early(count, data) ==
    IF has_nonzero(data)
    THEN [count |-> 0, pass |-> TRUE]
    ELSE IF count >= MAX_AUDIO_ZERO_COUNT
         THEN [count |-> IF count = MAX_AUDIO_ZERO_COUNT + 1
                         THEN add_one_u16(count) ELSE count,
               pass |-> FALSE]
         ELSE [count |-> add_one_u16(count), pass |-> TRUE]

\* lines 476-491: the new counter, and whether the frame goes on to the encoder
zero_gate(count, data) ==
    IF has_nonzero(data)
    THEN [count |-> 0, pass |-> TRUE]
    ELSE IF count > MAX_AUDIO_ZERO_COUNT
         THEN [count |-> IF count = MAX_AUDIO_ZERO_COUNT + 1
                         THEN add_one_u16(count) ELSE count,
               pass |-> FALSE]
         ELSE [count |-> add_one_u16(count), pass |-> TRUE]

\* the stream is built (line 411) or pa_impl::run begins (line 108)
NewStream == [count |-> 0,          \* AUDIO_ZERO_COUNT
              run |-> 0,            \* the all-zero frames since the last other one
              data |-> <<>>,        \* the last frame
              fresh |-> TRUE,       \* no frame yet
              encoded |-> FALSE,    \* the last frame was handed to the encoder
              sent |-> FALSE]       \* and a message of it was sent

InitGate ==
    /\ InitServer
    /\ InitAttempts
    /\ key_confirmed = TRUE
    /\ lock = 0
    /\ teardown = NoTeardown
    /\ subcall = NoSubcall
    /\ audio = NoAudio
    /\ ipc = <<>>
    /\ worker = <<>>
    /\ setcall = <<>>
    /\ gate = NewStream

GateStep(g) ==
    /\ gate' = g
    /\ UNCHANGED <<serverVars, hsVars, lock, teardown, subcall, audio, ipc, worker, setcall>>

\* send_f32 (not android), lines 475-491 and 522-534: the gate, then the
\* encoder, whose error is swallowed
send_f32(data, encode_ok) ==
    /\ has_nonzero(data) \/ gate.run < MaxZeroRun
    /\ GateStep([count |-> zero_gate(gate.count, data).count,
                 run |-> IF has_nonzero(data) THEN 0 ELSE gate.run + 1,
                 data |-> data,
                 fresh |-> FALSE,
                 encoded |-> zero_gate(gate.count, data).pass,
                 sent |-> zero_gate(gate.count, data).pass /\ encode_ok])

\* a new stream is built: the counter starts again
build_input_stream ==
    /\ ~gate.fresh
    /\ GateStep(NewStream)

NextGate ==
    \/ \E data \in Frames, encode_ok \in BOOLEAN : send_f32(data, encode_ok)
    \/ build_input_stream

SpecGate == InitGate /\ [][NextGate]_vars

max_attempts == 10

Min(a, b) == IF a < b THEN a ELSE b

next_wait_time_uncapped(wait_time) == wait_time * 2

\* line 585: std::cmp::min(wait_time * 2, 10)
next_wait_time(wait_time) == Min(wait_time * 2, 10)

InitIpc ==
    /\ InitServer
    /\ InitAttempts
    /\ key_confirmed = TRUE
    /\ lock = 0
    /\ teardown = NoTeardown
    /\ subcall = NoSubcall
    /\ audio = NoAudio
    /\ gate = <<>>
    /\ worker = <<>>
    /\ setcall = <<>>
    /\ \E is_server \in BOOLEAN, is_service_installation \in BOOLEAN :
          ipc = [pc |-> "start",
                 attempts |-> 0,
                 wait_time |-> 1,
                 is_server |-> is_server,      \* crate::is_server()
                 is_service_installation |-> is_service_installation,
                 started |-> 0,                \* the calls of ipc::start
                 slept |-> <<>>,               \* the sleeps, in seconds
                 stopped_main_window |-> FALSE]

IpcStep(i) ==
    /\ ipc' = i
    /\ UNCHANGED <<serverVars, hsVars, lock, teardown, subcall, audio, gate, worker, setcall>>

\* lines 560-581: ipc::start returns; Ok leaves the loop, the max_attempts-th
\* Err ends the process, after stop_main_window_process if this is the server
\* and no service installation is going on
ipc_start(ok) ==
    /\ ipc.pc = "start"
    /\ IpcStep(IF ok
               THEN [ipc EXCEPT !.pc = "done", !.started = @ + 1]
               ELSE IF ipc.attempts + 1 >= max_attempts
                    THEN [ipc EXCEPT !.pc = "exit", !.started = @ + 1,
                                     !.attempts = @ + 1,
                                     !.stopped_main_window =
                                         ipc.is_server /\ ~ipc.is_service_installation]
                    ELSE [ipc EXCEPT !.pc = "sleep", !.started = @ + 1,
                                     !.attempts = @ + 1])

\* lines 584-585: the sleep, then the next wait
ipc_sleep ==
    /\ ipc.pc = "sleep"
    /\ IpcStep([ipc EXCEPT !.pc = "start",
                           !.slept = Append(@, ipc.wait_time),
                           !.wait_time = next_wait_time(@)])

NextIpc ==
    \/ \E ok \in BOOLEAN : ipc_start(ok)
    \/ ipc_sleep

SpecIpc == InitIpc /\ [][NextIpc]_vars

\* C29: ipc::start is called at most 10 times and never again after an Ok;
\* the wait before the k-th retry is min(2^(k-1), 10) seconds; the 10th
\* failure ends the process with no further sleep, and the main-window
\* process is stopped only then, and only if this is the server and no
\* service installation is in progress.
C29_IpcRetry ==
    /\ [](/\ ipc.started <= 10
          /\ ipc.started = ipc.attempts + (IF ipc.pc = "done" THEN 1 ELSE 0)
          /\ Len(ipc.slept) = ipc.attempts - (IF ipc.pc \in {"sleep", "exit"} THEN 1 ELSE 0)
          /\ \A k \in 1..Len(ipc.slept) : ipc.slept[k] = Min(2 ^ (k - 1), 10)
          /\ ipc.pc = "exit" <=> ipc.attempts = 10
          /\ ipc.pc = "exit" => Len(ipc.slept) = 9
          /\ ipc.stopped_main_window <=>
                (ipc.pc = "exit" /\ ipc.is_server /\ ~ipc.is_service_installation))
    /\ [][ipc.pc \in {"done", "exit"} => ipc' = ipc]_vars

C29_Witness ==
    /\ ipc # <<>>
    /\ ipc.pc = "exit"
    /\ ipc.started = 10
    /\ ipc.slept = <<1, 2, 4, 8, 10, 10, 10, 10, 10>>
    /\ ipc.stopped_main_window

(***************************************************************************)
(* The shutdown of the host and the worker of the audio service.  The      *)
(* worker is a thread of its own: GenericService::run drives pa_impl::run  *)
(* (linux, android), GenericService::repeat calls cpal_impl::run at its    *)
(* interval.  join clears the keep-running flag of the service and waits   *)
(* for the thread.                                                         *)
(***************************************************************************)
\* how many buffers of the capture source the model counts
MaxBuffers == 2

Subscribers == 1..2

\* sp.ok(): the service is to keep running and has a subscriber
sp_ok(w) == w.active /\ w.subscribers # {}

InitStop ==
    /\ InitServer
    /\ InitAttempts
    /\ key_confirmed = TRUE
    /\ lock = 0
    /\ teardown = NoTeardown
    /\ subcall = NoSubcall
    /\ audio = NoAudio
    /\ gate = <<>>
    /\ ipc = <<>>
    /\ setcall = <<>>
    /\ \E backend \in Backends :
          worker = [backend |-> backend,
                    active |-> TRUE,          \* the keep-running flag
                    subscribers |-> {},
                    kpc |-> "outer",          \* where the worker stands
                    buffers |-> 0,            \* the buffers it has taken
                    phase |-> "serving"]      \* how far the shutdown has got

WorkerStep(w) ==
    /\ worker' = w
    /\ UNCHANGED <<serverVars, hsVars, lock, teardown, subcall, audio, gate, ipc, setcall>>

\* a connection subscribes to the audio service
audio_on_subscribe(c) ==
    /\ worker.phase = "serving"
    /\ c \notin worker.subscribers
    /\ WorkerStep([worker EXCEPT !.subscribers = @ \cup {c}])

\* a connection ends and remove_connection unsubscribes it
audio_on_unsubscribe(c) ==
    /\ worker.phase # "done"
    /\ c \in worker.subscribers
    /\ WorkerStep([worker EXCEPT !.subscribers = @ \ {c}])

\* Server::close_connections: the stop messages are handed over, nothing waits
shutdown_close_connections ==
    /\ worker.phase = "serving"
    /\ WorkerStep([worker EXCEPT !.phase = "closing"])

\* impl Drop for Server, line 492: s.join() clears the keep-running flag
join_enter ==
    /\ worker.phase = "closing"
    /\ WorkerStep([worker EXCEPT !.phase = "joining", !.active = FALSE])

\* s.join() returns once the worker thread has ended
join_return ==
    /\ worker.phase = "joining"
    /\ worker.kpc = "exited"
    /\ WorkerStep([worker EXCEPT !.phase = "done"])

\* the worker thread between two calls of the service's function: it ends
\* when the flag is cleared, sleeps with no subscriber, and else enters
\* pa_impl::run or makes one call of cpal_impl::run
worker_loop ==
    /\ worker.kpc = "outer"
    /\ WorkerStep(IF ~worker.active
                  THEN [worker EXCEPT !.kpc = "exited"]
                  ELSE IF worker.subscribers = {}
                       THEN worker
                       ELSE IF worker.backend = "pa"
                            THEN [worker EXCEPT !.kpc = "l124"]
                            ELSE [worker EXCEPT !.buffers =
                                      IF @ < MaxBuffers THEN @ + 1 ELSE @])

\* pa_impl::run, line 124: the loop goes on while sp.ok(), else run returns
pa_run_loop ==
    /\ worker.kpc = "l124"
    /\ WorkerStep(IF sp_ok(worker)
                  THEN [worker EXCEPT !.kpc = "l131"]
                  ELSE [worker EXCEPT !.kpc = "outer"])

\* line 131: stream.next_raw().await completes, with a buffer or an error,
\* when the capture process sends one or closes the stream
pa_next_raw(got) ==
    /\ worker.kpc = "l131"
    /\ WorkerStep([worker EXCEPT !.kpc = "l124",
                                 !.buffers = IF got /\ @ < MaxBuffers
                                             THEN @ + 1 ELSE @])

NextStop ==
    \/ \E c \in Subscribers : audio_on_subscribe(c)
    \/ \E c \in Subscribers : audio_on_unsubscribe(c)
    \/ shutdown_close_connections
    \/ join_enter
    \/ join_return
    \/ worker_loop
    \/ pa_run_loop
    \/ \E got \in BOOLEAN : pa_next_raw(got)

SpecStop == InitStop /\ [][NextStop]_vars

\* the threads of the host run on: the shutdown goes through its steps and
\* the worker through its own; when the capture process sends is up to it
HostRuns ==
    /\ WF_vars(shutdown_close_connections)
    /\ WF_vars(join_enter)
    /\ WF_vars(join_return)
    /\ WF_vars(worker_loop)
    /\ WF_vars(pa_run_loop)

SpecStopLive == SpecStop /\ HostRuns

\* C24: a shutdown of the host ends: once the destruction of the registry has
\* begun to join the audio service, its worker sees the cleared flag and
\* ends and join returns, whatever the peers and the capture source do, a
\* worker waiting for its next buffer included.
C24_Original ==
    (worker.phase = "joining") ~> (worker.phase = "done")

(***************************************************************************)
(* Subscribers and connections, checked under Spec.                        *)
(***************************************************************************)
\* C31: whatever add_connection, add_camera_connection, subscribe,
\* capture_displays and remove_connection have been called, every subscriber
\* of every service is a key of the connections map.
C31_Original ==
    \A n \in DOMAIN services : services[n] \subseteq connections

\* C32: the denylist of add_connection is used by that call alone: a later
\* subscribe(s, conn, true), or a capture_displays that includes s, for a
\* registered service s does subscribe the connection, also right after its
\* admission with s in the denylist.
C32_DenylistAtAdmissionOnly ==
    [][/\ (lastOp'.op = "subscribe" /\ lastOp'.sub
             /\ lastOp'.name \in DOMAIN services) =>
             /\ lastOp'.conn \in services'[lastOp'.name]
             /\ (lastOp.op = "add_connection" /\ lastOp.conn = lastOp'.conn
                   /\ lastOp'.name \in lastOp.noperms
                   /\ lastOp'.conn \notin services[lastOp'.name]) =>
                   calls' = {<<"on_subscribe", lastOp'.name, lastOp'.conn>>}
       /\ (lastOp'.op = "capture_displays" /\ lastOp'.include
             /\ lastOp'.source = Monitor /\ Monitor0 \in DOMAIN services
             /\ lastOp.op = "add_connection" /\ lastOp.conn = lastOp'.conn
             /\ Monitor0 \in lastOp.noperms) =>
             \A displays \in {<<0>>, <<0, 1>>} :
                \/ lastOp'.conn \in services'[Monitor0]
                \/ services' # capture_displays(services, lastOp'.conn, Monitor,
                                                displays, TRUE, lastOp'.exclude).svc]_vars

C32_Witness ==
    /\ lastOp.op = "subscribe"
    /\ lastOp.sub
    /\ lastOp.name = AUDIO_NAME
    /\ lastOp.conn \in connections
    /\ calls = {<<"on_subscribe", AUDIO_NAME, lastOp.conn>>}
    /\ Monitor0 \in DOMAIN services
    /\ \A n \in DOMAIN services : lastOp.conn \in services[n] <=> n = AUDIO_NAME

\* C35: a service added to the registry starts with no subscriber, and adding
\* it subscribes nobody and touches no connection: a connection admitted
\* before becomes a subscriber of a service only by a subscribe or a
\* capture_displays for it (or by being admitted again).
C35_AdmissionCoversRegisteredOnly ==
    [][/\ \A n \in DOMAIN services' \ DOMAIN services : services'[n] = {}
       /\ services' # services =>
             /\ AddsService => (calls' = {} /\ connections' = connections)
             /\ \A n \in DOMAIN services :
                   services[n] \subseteq services'[n] /\ services'[n] # services[n] =>
                      /\ lastOp'.op \in {"subscribe", "capture_displays",
                                         "add_connection", "add_camera_connection"}
                      /\ services'[n] = services[n] \cup {lastOp'.conn}]_vars

C35_Witness ==
    /\ lastOp.op = "try_add_primay_video_service"
    /\ Monitor0 \in DOMAIN services
    /\ services[Monitor0] = {}
    /\ \E id \in connections : id \in services[AUDIO_NAME]

(***************************************************************************)
(* set_voice_call_input_device called from several threads at once: each   *)
(* VOICE_CALL_INPUT_DEVICE.lock() of lines 57, 61 and 64 is a statement of *)
(* its own, and so are the load and the store of restart.                  *)
(***************************************************************************)
InitSet ==
    /\ InitServer
    /\ InitAttempts
    /\ key_confirmed = TRUE
    /\ lock = 0
    /\ teardown = NoTeardown
    /\ subcall = NoSubcall
    /\ audio = NoAudio
    /\ gate = <<>>
    /\ ipc = <<>>
    /\ worker = <<>>
    /\ \E restarting \in BOOLEAN :
          setcall = [device |-> None,                  \* VOICE_CALL_INPUT_DEVICE
                     restarting |-> restarting,        \* RESTARTING
                     pc |-> [c \in Callers |-> "idle"],
                     arg |-> [c \in Callers |-> None],
                     set_if_present |-> [c \in Callers |-> FALSE]]

SetStep(s) ==
    /\ setcall' = s
    /\ UNCHANGED <<serverVars, hsVars, lock, teardown, subcall, audio, gate, ipc, worker>>

\* the call is over: its arguments are gone
set_return(s, c) ==
    [s EXCEPT !.pc[c] = "idle", !.arg[c] = None, !.set_if_present[c] = FALSE]

\* lines 56-59: the call, and the look whether a device is stored
set_voice_call_input_device_by(c, device, set_if_present) ==
    /\ setcall.pc[c] = "idle"
    /\ SetStep(IF ~set_if_present /\ is_some(setcall.device)
               THEN setcall
               ELSE [setcall EXCEPT !.pc[c] = "l61", !.arg[c] = device,
                                    !.set_if_present[c] = set_if_present])

\* lines 61-63
set_compare_by(c) ==
    /\ setcall.pc[c] = "l61"
    /\ SetStep(IF setcall.device = setcall.arg[c]
               THEN set_return(setcall, c)
               ELSE [setcall EXCEPT !.pc[c] = "l64"])

\* line 64
set_store_by(c) ==
    /\ setcall.pc[c] = "l64"
    /\ SetStep([setcall EXCEPT !.pc[c] = "l79", !.device = setcall.arg[c]])

\* restart, lines 79-81
restart_load_by(c) ==
    /\ setcall.pc[c] = "l79"
    /\ SetStep(IF setcall.restarting
               THEN set_return(setcall, c)
               ELSE [setcall EXCEPT !.pc[c] = "l82"])

\* restart, line 82
restart_store_by(c) ==
    /\ setcall.pc[c] = "l82"
    /\ SetStep([set_return(setcall, c) EXCEPT !.restarting = TRUE])

NextSet ==
    \/ \E c \in Callers, device \in InputDevices, set_if_present \in BOOLEAN :
          set_voice_call_input_device_by(c, device, set_if_present)
    \/ \E c \in Callers : set_compare_by(c)
    \/ \E c \in Callers : set_store_by(c)
    \/ \E c \in Callers : restart_load_by(c)
    \/ \E c \in Callers : restart_store_by(c)

SpecSet == InitSet /\ [][NextSet]_vars

\* C33: a call with set_if_present = false never writes over a device that is
\* stored, also when several calls run at once.
C33_Original ==
    [][\A c \in Callers :
          (/\ setcall.pc[c] = "l64"
           /\ setcall'.pc[c] = "l79"
           /\ ~setcall.set_if_present[c])
              => ~is_some(setcall.device)]_vars

(***************************************************************************)
(* set_voice_call_input_device, one call after the other, checked under    *)
(* SpecAudio, where the audio worker runs beside the caller.               *)
(***************************************************************************)
\* C34: a call of set_voice_call_input_device(device, set_if_present) leaves
\* the stored device and RESTARTING alone if set_if_present is false and a
\* device is stored, or if the stored device equals device; otherwise it
\* stores device and calls restart, which sets RESTARTING, or does nothing
\* if it is set already.
C34_SetThenRestart ==
    [][/\ \A device \in InputDevices :
             (set_voice_call_input_device(device, FALSE) /\ is_some(audio.device))
                 => audio' = audio
       /\ (audio.wpc = "idle" /\ audio'.wpc # "idle") =>
             /\ audio'.wpc = "l61"
             /\ audio'.device = audio.device
             /\ audio'.restarting = audio.restarting
       /\ (audio.wpc = "l61" /\ audio'.wpc # "l61") =>
             /\ audio'.device = audio.device
             /\ audio'.restarting = audio.restarting
             /\ audio'.wpc = (IF audio.device = audio.warg THEN "idle" ELSE "l64")
       /\ (audio.wpc = "l64" /\ audio'.wpc # "l64") =>
             /\ audio'.device = audio.warg
             /\ audio'.restarting = audio.restarting
             /\ audio'.wpc = "l79"
       /\ (audio.wpc = "l79" /\ audio'.wpc # "l79") =>
             /\ audio'.device = audio.device
             /\ audio'.restarting = audio.restarting
             /\ audio'.wpc = (IF audio.restarting THEN "idle" ELSE "l82")
       /\ (audio.wpc = "l82" /\ audio'.wpc # "l82") =>
             /\ audio'.device = audio.device
             /\ audio'.restarting
             /\ audio'.wpc = "idle"
       /\ audio'.wpc # audio.wpc =>
             (audio'.kpc = audio.kpc /\ audio'.opened = audio.opened)]_vars

C34_Witness ==
    /\ audio # NoAudio
    /\ audio.backend = "cpal"
    /\ audio.wpc = "idle"
    /\ audio.kpc = "idle"
    /\ audio.device = "mic_a"
    /\ audio.restarting
    /\ audio.opened = Closed

====
